---- MODULE Spec2Model ----
(***************************************************************************)
(* models/pose.py of SMOPE-Net: MHAttentionMap, PoseHeadSmallLinear and    *)
(* DETRpose.  Tensors are functions over 1..n; real values are fixed-point *)
(* integers counted in units of 1/FixOne; a softmax output is kept as the  *)
(* exact fraction num/den it denotes.                                      *)
(***************************************************************************)
EXTENDS Integers, Sequences, FiniteSets, TLC

VARIABLES
    detr,           \* the detector handed to DETRpose(detr, freeze_detr)
    freeze_detr,    \* the constructor's freeze_detr argument, None before the call
    self,           \* the DETRpose (or PoseHeadSmallLinear) object, None before construction
    requires_grad,  \* parameter name -> trainable flag, over the registered parameters
    samples,        \* the argument of the forward call, None before the call
    result,         \* what the forward call produced, None before the call
    head_args,      \* the arguments PoseHeadSmallLinear was constructed with
    pc              \* "new", then "constructed", then "called"

vars == <<detr, freeze_detr, self, requires_grad, samples, result, head_args, pc>>

None == "None"

(* ------------------------------ bounds -------------------------------- *)
\* largest batch size B of a forward call
MaxB == 2
\* number of distinct images a batch is drawn from
NumImages == 3
\* Q, the detector's number of object queries
NumQueries == 2
\* M, the number of 3D models Model3DNet encodes
NumModels == 2
\* number of transformer decoder layers (first axis of hs)
NumLayers == 2
\* width of the detector's class logits
NumClassLogits == 2
\* resolution of the fixed-point reals: one unit is 1/FixOne
FixOne == 16
\* fixed-point value of exp(0)
ExpOne == 1000000
\* exp(-x) underflows to 0 for x above ExpRange
ExpRange == 16
\* PoseHeadSmallLinear is built for num_dims in 8, 16 .. 8*MaxDimFactor
MaxDimFactor == 8
\* ... and for num_heads in 1 .. MaxHeadArg
MaxHeadArg == 8

(* ------------------------- program constants -------------------------- *)
\* nn.GroupNorm(8, num_dims)
NumGroups == 8
num_l2 == 4
num_l4 == 4
\* nn.Linear(.., 6): width of a pose
PoseDim == 6
\* nn.Linear(.., 1): width of a class score
ClassDim == 1
\* detr.transformer.d_model: a multiple of the 8 groups of nn.GroupNorm, and
\* the smallest one for which every stage of the halving stacks has a width
\* of at least 1 whatever the number of heads
hidden_dim == 2 * NumGroups

(* ----------------------------- tensors -------------------------------- *)
RECURSIVE Tensor(_, _)
\* the tensor of the given rank with the elements of f: a tensor holds its
\* elements, so each is computed once, when the tensor is built
Tensor(f, rank) ==
    IF rank = 0 THEN f
    ELSE [i \in DOMAIN f |-> Tensor(f[i], rank - 1)] @@ << >>

(* --------------------------- arithmetic ------------------------------- *)
RECURSIVE Pow2(_)
Pow2(i) == IF i = 0 THEN 1 ELSE 2 * Pow2(i - 1)

RECURSIVE SumTo(_, _)
\* f[1] + ... + f[n]
SumTo(f, n) == IF n = 0 THEN 0 ELSE f[n] + SumTo(f, n - 1)

RECURSIVE MaxTo(_, _)
\* max(f[1], ..., f[n]), n >= 1
MaxTo(f, n) ==
    IF n = 1 THEN f[1]
    ELSE LET r == MaxTo(f, n - 1) IN IF f[n] > r THEN f[n] ELSE r

RECURSIVE SqrtSearch(_, _, _)
\* the largest r in lo..hi with r*r <= n
SqrtSearch(n, lo, hi) ==
    IF lo = hi THEN lo
    ELSE LET mid == (lo + hi + 1) \div 2
         IN IF mid * mid <= n THEN SqrtSearch(n, mid, hi)
            ELSE SqrtSearch(n, lo, mid - 1)

RECURSIVE SqrtBound(_, _)
SqrtBound(n, r) == IF r * r > n THEN r ELSE SqrtBound(n, 2 * r)

\* floor of the square root
Isqrt(n) == IF n <= 0 THEN 0 ELSE SqrtSearch(n, 0, SqrtBound(n, 1))

\* exp(-1/FixOne) to second order: 1 - 1/F + 1/(2 F^2)
DecayNum == 2 * FixOne * FixOne - 2 * FixOne + 1
DecayDen == 2 * FixOne * FixOne

RECURSIVE ExpFix(_)
\* exp(d / FixOne) * ExpOne for d <= 0, rounded down; 0 once it underflows;
\* a whole unit multiplies by exp(-1) = 0.368, a 1/FixOne step by DecayNum/DecayDen
ExpFix(d) ==
    IF d >= 0 THEN ExpOne
    ELSE IF d < 0 - ExpRange * FixOne THEN 0
    ELSE IF d <= 0 - FixOne THEN (ExpFix(d + FixOne) * 368) \div 1000
    ELSE (ExpFix(d + 1) * DecayNum) \div DecayDen

\* the fixed-point value of the fraction r
ToFix(r) == (FixOne * r.num) \div r.den

ReLU(x) == IF x > 0 THEN x ELSE 0

\* F.softmax over a vector of n fixed-point scores: exp(x - max) / sum
Softmax(x, n) ==
    LET mx == MaxTo(x, n)
        e == Tensor([k \in 1..n |-> ExpFix(x[k] - mx)], 1)
        den == SumTo(e, n)
    IN Tensor([k \in 1..n |-> [num |-> e[k], den |-> den]], 1)

(* ------------------------ learned parameters -------------------------- *)
ParamNames == <<
    "detr.backbone", "detr.input_proj", "detr.transformer", "detr.query_embed",
    "detr.class_embed", "detr.bbox_embed",
    "model_3d_net",
    "bbox_attention.q_linear", "bbox_attention.k_linear",
    "pose_head.l1", "pose_head.g1",
    "pose_head.l2.0", "pose_head.l2.2", "pose_head.l2.4", "pose_head.l2.6",
    "pose_head.l3",
    "pose_head.l4.0", "pose_head.l4.2", "pose_head.l4.4", "pose_head.l4.6",
    "pose_head.l5" >>

ParamIndex == [n \in {ParamNames[i] : i \in 1..Len(ParamNames)} |->
                 CHOOSE i \in 1..Len(ParamNames) : ParamNames[i] = n]

\* the widest layer of the model: the first of a halving stack, fed the
\* fused tensor of hidden_dim + nhead <= 2 * hidden_dim values
MaxWidth == 2 * hidden_dim

\* the learned parameters, fixed for the run of the model: weight[name][o][i]
\* is element (o, i) of the weight matrix of layer `name` and bias[name][o]
\* element o of its bias, in fixed-point units
Parameters ==
    [weight |-> [name \in DOMAIN ParamIndex |->
                   Tensor([o \in 1..MaxWidth |-> [i \in 1..MaxWidth |->
                       (((ParamIndex[name] * 36 + o * 11 + i * 34 + o * i * 33 + o * o * 36) % 29) % 3) - 1]],
                          2)],
     bias   |-> [name \in DOMAIN ParamIndex |->
                   Tensor([o \in 1..MaxWidth |->
                       (((ParamIndex[name] * 5 + o * 7) % 11) % 3) - 1], 1)]]

RECURSIVE Dot(_, _, _)
\* w[1] * x[1] + ... + w[n] * x[n]
Dot(w, x, n) == IF n = 0 THEN 0 ELSE w[n] * x[n] + Dot(w, x, n - 1)

\* nn.Linear(n_in, n_out) applied to the vector x of length n_in
Linear(name, n_in, n_out, x) ==
    Tensor([o \in 1..n_out |->
              Parameters.bias[name][o] + Dot(Parameters.weight[name][o], x, n_in)], 1)

(* --------------------------- MHAttentionMap --------------------------- *)
\* self.normalize_fact = float(hidden_dim / num_heads) ** -0.5, with `/` the
\* true division, as the fraction
\* FixOne / floor(FixOne * sqrt(hidden_dim / num_heads)): the quotient is
\* taken after scaling, so a num_heads that does not divide hidden_dim
\* keeps its fractional part
normalize_fact(hd, nh) ==
    [num |-> FixOne, den |-> Isqrt((hd * FixOne * FixOne) \div nh)]

\* nn.Dropout(p): the identity when p = 0.0 or outside training mode; with
\* p > 0 in training mode it zeroes elements at random, which no call made
\* here does: DETRpose builds the map with dropout=0.0, and None stands for
\* that case
Dropout(p, training, w) == IF p = 0 \/ ~training THEN w ELSE None

\* t.view(B, L, num_heads, c): element (n, j) of a row is element (n-1)*c + j
View(t, nh, c) ==
    Tensor([b \in DOMAIN t |-> [i \in DOMAIN t[b] |->
        [n \in 1..nh |-> [j \in 1..c |-> t[b][i][(n - 1) * c + j]]]]], 4)

\* torch.einsum("bqnc,bmnc->bqnm", qh * normalize_fact, kh)
Einsum(qh, kh, fact, nh, c) ==
    Tensor([b \in DOMAIN qh |-> [i \in DOMAIN qh[b] |-> [n \in 1..nh |->
        [m \in DOMAIN kh[b] |->
            SumTo([j \in 1..c |->
                     ((qh[b][i][n][j] * fact.num) \div fact.den) * kh[b][m][n][j]],
                  c) \div FixOne]]]], 4)

\* weights.flatten(2): axes 2.. (heads, M) of a (B, Q, heads, M) tensor merged
Flatten2(w, nh, nm) ==
    Tensor([b \in DOMAIN w |-> [i \in DOMAIN w[b] |->
        [k \in 1..(nh * nm) |-> w[b][i][((k - 1) \div nm) + 1][((k - 1) % nm) + 1]]]], 3)

\* F.softmax(., dim=-1) of a (B, Q, L) tensor
SoftmaxLast(f, len) ==
    Tensor([b \in DOMAIN f |-> [i \in DOMAIN f[b] |-> Softmax(f[b][i], len)]], 2)

\* .view(weights.size()): back to (B, Q, heads, M)
ViewAs(f, nh, nm) ==
    Tensor([b \in DOMAIN f |-> [i \in DOMAIN f[b] |->
        [n \in 1..nh |-> [m \in 1..nm |-> f[b][i][(n - 1) * nm + m]]]]], 4)

\* MHAttentionMap.forward(q, k) of the module att =
\* [num_heads, hidden_dim, dropout, training]; q is (B, Q, query_dim),
\* k is (B, M, query_dim); returns the (B, Q, heads, M) weights
MHAttentionMap_forward(att, q, k) ==
    LET nh == att.num_heads
        hd == att.hidden_dim
        c  == hd \div nh
        nm == Len(k[1])
        ql == Tensor([b \in DOMAIN q |-> [i \in DOMAIN q[b] |->
                 Linear("bbox_attention.q_linear", hd, hd, q[b][i])]], 2)
        kl == Tensor([b \in DOMAIN k |-> [m \in DOMAIN k[b] |->
                 Linear("bbox_attention.k_linear", hd, hd, k[b][m])]], 2)
        qh == View(ql, nh, c)
        kh == View(kl, nh, c)
        weights == Einsum(qh, kh, normalize_fact(hd, nh), nh, c)
        sm == ViewAs(SoftmaxLast(Flatten2(weights, nh, nm), nh * nm), nh, nm)
    IN Dropout(att.dropout, att.training, sm)

(* ------------------------- PoseHeadSmallLinear ------------------------ *)
\* the widths of a stack whose halvings round up instead of down
HalvingStackCeil(num_feat, num_l) ==
    [k \in 1..num_l |-> [in  |-> (num_feat + Pow2(k - 1) - 1) \div Pow2(k - 1),
                         out |-> (num_feat + Pow2(k) - 1) \div Pow2(k)]]

\* the loop `for i in range(num_l): Linear(num_feat // 2**i, num_feat // 2**(i+1))`:
\* entry i+1 holds the widths of the Linear appended in iteration i
HalvingStack(num_feat, num_l) ==
    [k \in 1..num_l |-> [in  |-> num_feat \div Pow2(k - 1),
                         out |-> num_feat \div Pow2(k)]]

\* PoseHeadSmallLinear.__init__(num_dims, num_heads): the layers and their widths
PoseHeadSmallLinear_init(num_dims, num_heads) ==
    LET num_feat == num_dims + num_heads
    IN [num_dims  |-> num_dims,
        num_heads |-> num_heads,
        l1 |-> [in |-> num_dims, out |-> num_dims],
        g1 |-> [groups |-> NumGroups, channels |-> num_dims],
        l2 |-> HalvingStack(num_feat, num_l2),
        l3 |-> [in |-> num_feat \div Pow2(num_l2), out |-> ClassDim],
        l4 |-> HalvingStack(num_feat, num_l4),
        l5 |-> [in |-> num_feat \div Pow2(num_l4), out |-> PoseDim]]

\* the name of the k-th Linear of the nn.Sequential `stack` (ReLUs interleave)
SeqName(stack, k) ==
    IF stack = "l2"
    THEN <<"pose_head.l2.0", "pose_head.l2.2", "pose_head.l2.4", "pose_head.l2.6">>[k]
    ELSE <<"pose_head.l4.0", "pose_head.l4.2", "pose_head.l4.4", "pose_head.l4.6">>[k]

RECURSIVE Sequential(_, _, _, _)
\* nn.Sequential(Linear, ReLU, ..., Linear, ReLU): layers 1..k applied to x
Sequential(stack, layers, k, x) ==
    IF k = 0 THEN x
    ELSE LET y == Linear(SeqName(stack, k), layers[k].in, layers[k].out,
                         Sequential(stack, layers, k - 1, x))
         IN Tensor([o \in DOMAIN y |-> ReLU(y[o])], 1)

\* nn.GroupNorm(groups, channels) of one sample xb (M rows of `channels`
\* values; the permutes put the channel axis first): each group of
\* channels/groups channels is normalised over its channels and all M rows:
\* (x - mean) / sqrt(var + eps), weight 1 and bias 0
GroupNorm(xb, groups, channels) ==
    LET nm  == Len(xb)
        cpg == channels \div groups
        n   == cpg * nm
        At(g, k) == xb[((k - 1) \div cpg) + 1][(g - 1) * cpg + ((k - 1) % cpg) + 1]
        S  == Tensor([g \in 1..groups |-> SumTo([k \in 1..n |-> At(g, k)], n)], 1)
        SS == Tensor([g \in 1..groups |-> SumTo([k \in 1..n |-> At(g, k) * At(g, k)], n)], 1)
        \* n * sqrt(var + eps) in fixed-point units; eps is below one unit
        D  == Tensor([g \in 1..groups |-> Isqrt(n * SS[g] - S[g] * S[g] + 1)], 1)
        G(ch) == ((ch - 1) \div cpg) + 1
    IN Tensor([m \in 1..nm |-> [ch \in 1..channels |->
          (FixOne * (n * xb[m][ch] - S[G(ch)])) \div D[G(ch)]]], 2)

\* lines 93-95: x = relu(g1(l1(x).permute(0,2,1)).permute(0,2,1))
Refine(ph, x) ==
    LET x1 == Tensor([b \in DOMAIN x |-> [m \in DOMAIN x[b] |->
                 Linear("pose_head.l1", ph.l1.in, ph.l1.out, x[b][m])]], 2)
        x2 == Tensor([b \in DOMAIN x |->
                 GroupNorm(x1[b], ph.g1.groups, ph.g1.channels)], 1)
    IN Tensor([b \in DOMAIN x |-> [m \in DOMAIN x[b] |->
          [ch \in DOMAIN x2[b][m] |-> ReLU(x2[b][m][ch])]]], 3)

\* line 96: torch.cat([x.unsqueeze(1).repeat(1, Q, 1, 1),
\*                     attention.permute(0, 1, 3, 2)], dim=3)
Fuse(x, attention) ==
    Tensor([b \in DOMAIN x |-> [q \in DOMAIN attention[b] |-> [m \in DOMAIN x[b] |->
        LET nd == Len(x[b][m])
            nh == Len(attention[b][q])
        IN [f \in 1..(nd + nh) |->
              IF f <= nd THEN x[b][m][f] ELSE ToFix(attention[b][q][f - nd][m])]]]], 4)

\* line 99 and the projection of line 100: self.l3(self.l2(x)), squeezed
ClassScores(ph, fused) ==
    Tensor([b \in DOMAIN fused |-> [q \in DOMAIN fused[b] |-> [m \in DOMAIN fused[b][q] |->
        Linear("pose_head.l3", ph.l3.in, ph.l3.out,
               Sequential("l2", ph.l2, num_l2, fused[b][q][m]))[1]]]], 3)

\* the score handed to the softmax without an activation
ClassActivationNone(s) == s

\* line 100: the activation F.relu(.) around self.l3(x_c)
ClassActivation(s) == ReLU(s)

\* the softmax taken along the query axis (dim=1) instead of the model axis
ClassProbabilitiesOverQueries(scores) ==
    Tensor([b \in DOMAIN scores |-> [q \in DOMAIN scores[b] |->
        [m \in DOMAIN scores[b][q] |->
            Softmax(Tensor([i \in DOMAIN scores[b] |->
                              ClassActivation(scores[b][i][m])], 1),
                    Len(scores[b]))[q]]]], 3)

\* lines 100-101: x_c = F.softmax(F.relu(scores).squeeze(-1), dim=-1)
ClassProbabilities(scores) ==
    Tensor([b \in DOMAIN scores |-> [q \in DOMAIN scores[b] |->
        Softmax(Tensor([m \in DOMAIN scores[b][q] |->
                          ClassActivation(scores[b][q][m])], 1),
                Len(scores[b][q]))]], 2)

\* the pose passed through a rectifier
PoseActivationReLU(v) == ReLU(v)

\* line 105: the output of self.l5, returned as it is
PoseActivation(v) == v

\* lines 104-105: x_p = self.l5(self.l4(x))
PoseBranch(ph, fused) ==
    Tensor([b \in DOMAIN fused |-> [q \in DOMAIN fused[b] |-> [m \in DOMAIN fused[b][q] |->
        LET y == Linear("pose_head.l5", ph.l5.in, ph.l5.out,
                        Sequential("l4", ph.l4, num_l4, fused[b][q][m]))
        IN [d \in DOMAIN y |-> PoseActivation(y[d])]]]], 4)

\* PoseHeadSmallLinear.forward(x, attention): x is (B, M, num_dims),
\* attention is (B, Q, heads, M); returns (x_c, x_p)
PoseHeadSmallLinear_forward(ph, x, attention) ==
    LET fused == Fuse(Refine(ph, x), attention)
    IN << ClassProbabilities(ClassScores(ph, fused)), PoseBranch(ph, fused) >>

(* ------------------------- the collaborators -------------------------- *)
DetrParams == {"detr.backbone", "detr.input_proj", "detr.transformer",
               "detr.query_embed", "detr.class_embed", "detr.bbox_embed"}

Model3DParams == {"model_3d_net"}
AttentionParams == {"bbox_attention.q_linear", "bbox_attention.k_linear"}
PoseHeadParams == {"pose_head.l1", "pose_head.g1",
                   "pose_head.l2.0", "pose_head.l2.2", "pose_head.l2.4", "pose_head.l2.6",
                   "pose_head.l3",
                   "pose_head.l4.0", "pose_head.l4.2", "pose_head.l4.4", "pose_head.l4.6",
                   "pose_head.l5"}

\* nested_tensor_from_tensor_list: a list or tensor of images is padded into
\* a NestedTensor that carries a validity mask
nested_tensor_from_tensor_list(smp) ==
    [kind |-> "NestedTensor", tensors |-> smp.tensors, mask |-> "mask"]

\* detr.backbone(samples): the feature maps (last scale last) and their
\* positional encodings; a feature map carries the mask of the samples
backbone(d, smp) ==
    LET f == [tensors |-> Tensor([b \in DOMAIN smp.tensors |-> smp.tensors[b]], 1),
              mask |-> smp.mask]
    IN << <<f>>, <<"pos">> >>

\* NestedTensor.decompose()
decompose(nt) == <<nt.tensors, nt.mask>>

\* detr.input_proj(src)
input_proj(d, src) == Tensor([b \in DOMAIN src |-> src[b] + NumImages], 1)

\* detr.transformer(src_proj, mask, query_embed, pos) -> (hs, memory);
\* hs is (layers, B, Q, hidden_dim), each image's rows depending on that image
transformer(d, src_proj, mask, query_embed, pos) ==
    LET hs == Tensor([l \in 1..NumLayers |-> [b \in DOMAIN src_proj |->
                [q \in 1..NumQueries |-> [c \in 1..d.d_model |->
                    ((((src_proj[b] * 7 + l * 5 + q * 3 + c * (1 + src_proj[b]) ) % 7)
                      - 3) * FixOne) \div 4]]]], 4)
    IN <<hs, "memory">>

\* detr.class_embed(hs): a linear head on every layer's hidden states
class_embed(d, hs) ==
    Tensor([l \in DOMAIN hs |-> [b \in DOMAIN hs[l] |-> [q \in DOMAIN hs[l][b] |->
        Linear("detr.class_embed", d.d_model, NumClassLogits, hs[l][b][q])]]], 3)

\* detr.bbox_embed(hs): a head producing 4 box coordinates
bbox_embed(d, hs) ==
    Tensor([l \in DOMAIN hs |-> [b \in DOMAIN hs[l] |-> [q \in DOMAIN hs[l][b] |->
        Linear("detr.bbox_embed", d.d_model, 4, hs[l][b][q])]]], 3)

\* detr._set_aux_loss: one record per decoder layer but the last
set_aux_loss(outputs_class, outputs_coord) ==
    Tensor([l \in 1..(Len(outputs_class) - 1) |->
        [pred_logits |-> outputs_class[l], pred_boxes |-> outputs_coord[l]]], 1)

\* Model3DNet.forward_encoder(): the (M, hidden_dim) model embeddings
forward_encoder ==
    Tensor([m \in 1..NumModels |-> [c \in 1..hidden_dim |->
        ((((m * m * 3 + c * (m + 1) ) % 5) - 2) * FixOne) \div 4]], 2)

\* Model3DNet.forward_decoder(feat) -> (point cloud, scale, center)
forward_decoder(feat) ==
    << Tensor([m \in DOMAIN feat |->
                 Linear("model_3d_net", Len(feat[m]), 3, feat[m])], 1),
       Tensor([m \in DOMAIN feat |->
                 SumTo([c \in DOMAIN feat[m] |-> ReLU(feat[m][c])], Len(feat[m]))], 1),
       Tensor([m \in DOMAIN feat |-> SumTo(feat[m], Len(feat[m]))], 1) >>

(* ------------------------------ DETRpose ------------------------------ *)
\* lines 115-117: `for p in self.parameters(): p.requires_grad_(False)`
\* over the parameters registered so far
Freeze(rg, freeze) == IF freeze THEN [p \in DOMAIN rg |-> FALSE] ELSE rg

\* the parameters of the modules created on lines 121-125, trainable as created
NewModules == [p \in Model3DParams \cup AttentionParams \cup PoseHeadParams |-> TRUE]

\* the constructor with the freeze loop run after the new modules are created
DETRpose_init_freeze_last(d, freeze) ==
    [self |-> [detr |-> d,
               model_3d_net |-> "Model3DNet",
               bbox_attention |-> [num_heads |-> d.nhead, hidden_dim |-> d.d_model,
                                   dropout |-> 0, training |-> TRUE],
               pose_head |-> PoseHeadSmallLinear_init(d.d_model, d.nhead)],
     requires_grad |-> Freeze(d.requires_grad @@ NewModules, freeze)]

\* DETRpose.__init__(detr, freeze_detr): the object and its parameters' flags
DETRpose_init(d, freeze) ==
    [self |-> [detr |-> d,
               model_3d_net |-> "Model3DNet",
               bbox_attention |-> [num_heads |-> d.nhead, hidden_dim |-> d.d_model,
                                   dropout |-> 0, training |-> TRUE],
               pose_head |-> PoseHeadSmallLinear_init(d.d_model, d.nhead)],
     requires_grad |-> Freeze(d.requires_grad, freeze) @@ NewModules]

\* tensor.sigmoid() of a fixed-point value
Sigmoid(x) ==
    IF x >= 0 THEN (FixOne * ExpOne) \div (ExpOne + ExpFix(0 - x))
    ELSE (FixOne * ExpFix(x)) \div (ExpOne + ExpFix(x))

\* a broadcast that hands batch element b the models rotated by b - 1 places
RepeatRotated(feat, bs) ==
    Tensor([b \in 1..bs |-> [m \in DOMAIN feat |->
        feat[((m + b - 2) % Len(feat)) + 1]]], 1)

\* line 157: model_3d_feat[None].repeat(bs, 1, 1)
Repeat(feat, bs) == Tensor([b \in 1..bs |-> feat], 1)

\* the assertion compiled away
MaskAssertSkipped(mask) == TRUE

\* line 136: assert mask is not None
MaskAssert(mask) == mask # None

\* a detector whose frozen input projection is left out of the forward pass
DetectorFrozenSkipped(d, rg, src, mask, pos) ==
    transformer(d, IF rg["detr.input_proj"] THEN input_proj(d, src) ELSE src,
                mask, "query_embed.weight", pos)

\* lines 137-138: hs, memory = detr.transformer(detr.input_proj(src), mask,
\* detr.query_embed.weight, pos[-1]); the parameters' flags rg play no part
Detector(d, rg, src, mask, pos) ==
    transformer(d, input_proj(d, src), mask, "query_embed.weight", pos)

\* the detection fields read from the first decoder layer
DetectionOutputsFirstLayer(d, outputs_class, outputs_coord) ==
    LET out == [pred_logits |-> outputs_class[1],
                pred_boxes  |-> outputs_coord[1]]
    IN IF d.aux_loss
       THEN out @@ [aux_outputs |-> set_aux_loss(outputs_class, outputs_coord)]
       ELSE out

\* lines 143-149: the detection fields of the result
DetectionOutputs(d, outputs_class, outputs_coord) ==
    LET out == [pred_logits |-> outputs_class[Len(outputs_class)],
                pred_boxes  |-> outputs_coord[Len(outputs_coord)]]
    IN IF d.aux_loss
       THEN out @@ [aux_outputs |-> set_aux_loss(outputs_class, outputs_coord)]
       ELSE out

\* lines 171-175: the pose and 3D-model fields added to the result
PoseOutputs(out, pose_class, pose_6dof, pred_model_point) ==
    out @@ [pose_class |-> pose_class,
            pose_6dof |-> pose_6dof,
            pred_model_points  |-> pred_model_point[1],
            pred_model_scales  |-> pred_model_point[2],
            pred_model_centers |-> pred_model_point[3]]

\* DETRpose.forward(samples) of the object sf whose parameters carry the flags
\* rg.  `raised` is the exception the call ends with, `out` the record it
\* returns, `calls` the collaborators it invoked, in order, and `locals` the
\* values its local variables held
DETRpose_forward(sf, rg, smp) ==
    LET d == sf.detr
        nt == IF smp.kind \in {"list", "Tensor"}
              THEN nested_tensor_from_tensor_list(smp) ELSE smp
        fp == backbone(d, nt)
        features == fp[1]
        pos == fp[2]
        last == features[Len(features)]
        bs == Len(last.tensors)
        sm == decompose(last)
        src == sm[1]
        mask == sm[2]
    IN IF ~MaskAssert(mask)
       THEN [raised |-> "AssertionError", out |-> None, locals |-> None,
             calls |-> <<"backbone">>]
       ELSE
       LET tr == Detector(d, rg, src, mask, pos[Len(pos)])
           hs == tr[1]
           outputs_class == class_embed(d, hs)
           be == bbox_embed(d, hs)
           outputs_coord == Tensor([l \in DOMAIN be |-> [b \in DOMAIN be[l] |->
                               [q \in DOMAIN be[l][b] |-> [k \in DOMAIN be[l][b][q] |->
                                   Sigmoid(be[l][b][q][k])]]]], 4)
           out == DetectionOutputs(d, outputs_class, outputs_coord)
           enc == forward_encoder
           pred_model_point == forward_decoder(enc)
           model_3d_feat == Repeat(enc, bs)
           bbox_3dmodel_attention ==
               MHAttentionMap_forward(sf.bbox_attention, hs[Len(hs)], model_3d_feat)
           ph == PoseHeadSmallLinear_forward(sf.pose_head, model_3d_feat,
                                             bbox_3dmodel_attention)
       IN [raised |-> None,
           out |-> PoseOutputs(out, ph[1], ph[2], pred_model_point),
           locals |-> [hs |-> hs,
                       decoder_arg |-> enc,
                       model_3d_feat |-> model_3d_feat,
                       bbox_3dmodel_attention |-> bbox_3dmodel_attention],
           calls |-> <<"backbone", "input_proj", "transformer", "class_embed", "bbox_embed">>
                     \o (IF d.aux_loss THEN <<"_set_aux_loss">> ELSE << >>)
                     \o <<"forward_encoder", "forward_decoder", "bbox_attention", "pose_head">>]

(* --------------------------- the state machine ------------------------ *)
HeadChoices == {n \in 1..hidden_dim : hidden_dim % n = 0}

\* the detector arrives with its backbone frozen and the rest trainable
FlagChoices == {[p \in DetrParams |-> p # "detr.backbone"]}

\* a batch of B images: image `first` and the images after it
Batch(first, B) ==
    Tensor([b \in 1..B |-> ((first + b - 2) % NumImages) + 1], 1)

\* a list of images (no mask yet), or a NestedTensor with or without its mask
SampleChoices ==
    {[kind |-> "list", tensors |-> Batch(f, B), mask |-> None] :
        f \in 1..NumImages, B \in 1..MaxB}
    \cup
    {[kind |-> "NestedTensor", tensors |-> Batch(f, B), mask |-> mk] :
        f \in 1..NumImages, B \in 1..MaxB, mk \in {"mask", None}}

Init ==
    /\ detr \in [d_model : {hidden_dim}, nhead : HeadChoices, aux_loss : BOOLEAN,
                 requires_grad : FlagChoices]
    /\ freeze_detr = None
    /\ self = None
    /\ requires_grad = detr.requires_grad
    /\ samples = None
    /\ result = None
    /\ head_args = None
    /\ pc = "new"

\* model = DETRpose(detr, freeze_detr)
Construct(freeze) ==
    /\ pc = "new"
    /\ pc' = "constructed"
    /\ freeze_detr' = freeze
    /\ self' = DETRpose_init(detr, freeze).self
    /\ requires_grad' = DETRpose_init(detr, freeze).requires_grad
    /\ head_args' = [num_dims |-> detr.d_model, num_heads |-> detr.nhead]
    /\ UNCHANGED <<detr, samples, result>>

\* model(samples)
Forward(smp) ==
    /\ pc = "constructed"
    /\ pc' = "called"
    /\ samples' = smp
    /\ result' = DETRpose_forward(self, requires_grad, smp)
    /\ UNCHANGED <<detr, freeze_detr, self, requires_grad, head_args>>

Next ==
    \/ \E freeze \in BOOLEAN : Construct(freeze)
    \/ \E smp \in SampleChoices : Forward(smp)

Spec == Init /\ [][Next]_vars

(* ----------------- PoseHeadSmallLinear constructed alone -------------- *)
HeadArgChoices ==
    [num_dims : {NumGroups * f : f \in 1..MaxDimFactor}, num_heads : 1..MaxHeadArg]

InitHead ==
    /\ detr = None
    /\ freeze_detr = None
    /\ self = None
    /\ requires_grad = None
    /\ samples = None
    /\ result = None
    /\ head_args \in HeadArgChoices
    /\ pc = "new"

\* head = PoseHeadSmallLinear(num_dims, num_heads)
ConstructHead ==
    /\ pc = "new"
    /\ pc' = "constructed"
    /\ self' = PoseHeadSmallLinear_init(head_args.num_dims, head_args.num_heads)
    /\ UNCHANGED <<detr, freeze_detr, requires_grad, samples, result, head_args>>

NextHead == ConstructHead

SpecHead == InitHead /\ [][NextHead]_vars

(* ------------------------------ properties ---------------------------- *)
\* line 177: the forward call ran to `return out`
Returned == pc = "called" /\ result.raised = None

\* C1: MHAttentionMap.forward with dropout inactive returns weights of shape
\* (B, Q, heads, M) and for every (batch, query, head) the M weights are
\* non-negative and sum to 1, a softmax over the key axis M alone.
C1_PerHeadSumsToOne ==
    Returned =>
        LET w  == result.locals.bbox_3dmodel_attention
            nh == self.bbox_attention.num_heads
        IN /\ DOMAIN w = 1..Len(samples.tensors)
           /\ \A b \in DOMAIN w :
                /\ DOMAIN w[b] = 1..NumQueries
                /\ \A q \in DOMAIN w[b] :
                     /\ DOMAIN w[b][q] = 1..nh
                     /\ \A h \in 1..nh :
                          /\ DOMAIN w[b][q][h] = 1..NumModels
                          /\ \A m \in 1..NumModels : w[b][q][h][m].num >= 0
                          /\ SumTo([m \in 1..NumModels |-> w[b][q][h][m].num], NumModels)
                               = w[b][q][h][1].den

\* C2: the first output of PoseHeadSmallLinear.forward has shape (B, Q, M)
\* and, for every (batch, query), its M entries are non-negative and sum to 1.
C2_ClassRowsSumToOne ==
    Returned =>
        LET pcl == result.out.pose_class
        IN /\ DOMAIN pcl = 1..Len(samples.tensors)
           /\ \A b \in DOMAIN pcl :
                /\ DOMAIN pcl[b] = 1..NumQueries
                /\ \A q \in DOMAIN pcl[b] :
                     /\ DOMAIN pcl[b][q] = 1..NumModels
                     /\ pcl[b][q][1].den > 0
                     /\ \A m \in 1..NumModels :
                          /\ pcl[b][q][m].num >= 0
                          /\ pcl[b][q][m].den = pcl[b][q][1].den
                     /\ SumTo([m \in 1..NumModels |-> pcl[b][q][m].num], NumModels)
                          = pcl[b][q][1].den

\* a batch of two whose class rows are not all uniform and differ between queries
C2_Witness ==
    /\ Returned
    /\ Len(samples.tensors) >= 2
    /\ \E b \in DOMAIN result.out.pose_class :
         \E q1, q2 \in 1..NumQueries :
           /\ result.out.pose_class[b][q1][1].num # result.out.pose_class[b][q1][2].num
           /\ result.out.pose_class[b][q1] # result.out.pose_class[b][q2]

\* C3: a forward call that returns yields a record with exactly the fields
\* pred_logits, pred_boxes, pose_class, pose_6dof, pred_model_points,
\* pred_model_scales, pred_model_centers, plus aux_outputs iff the detector's
\* aux_loss flag is set; pred_logits and pred_boxes come from the last decoder
\* layer, and the pred_model_* fields are the decoder's point cloud, scale
\* and center, in that order.
C3_OutputRecord ==
    Returned =>
        LET out == result.out
            hs == result.locals.hs
            logits == class_embed(detr, hs)
            boxes == bbox_embed(detr, hs)
            dec == forward_decoder(forward_encoder)
        IN /\ DOMAIN out = {"pred_logits", "pred_boxes", "pose_class", "pose_6dof",
                            "pred_model_points", "pred_model_scales",
                            "pred_model_centers"}
                           \cup (IF detr.aux_loss THEN {"aux_outputs"} ELSE {})
           /\ Len(hs) = NumLayers
           /\ out.pred_logits = logits[NumLayers]
           /\ \A b \in DOMAIN out.pred_boxes : \A q \in DOMAIN out.pred_boxes[b] :
                \A k \in 1..4 :
                  out.pred_boxes[b][q][k] = Sigmoid(boxes[NumLayers][b][q][k])
           /\ DOMAIN out.pred_boxes = DOMAIN boxes[NumLayers]
           /\ out.pred_model_points = dec[1]
           /\ out.pred_model_scales = dec[2]
           /\ out.pred_model_centers = dec[3]

\* a returned call of either kind: with aux_outputs over every layer but the
\* last, whose logits differ from the last layer's
C3_Witness ==
    /\ Returned
    /\ detr.aux_loss
    /\ Len(result.out.aux_outputs) = NumLayers - 1
    /\ result.out.aux_outputs[1].pred_logits # result.out.pred_logits
    /\ result.out.pred_model_scales # result.out.pred_model_centers

\* C4: after DETRpose(detr, freeze_detr=True) every parameter of the detector
\* is non-trainable and every parameter of the cross-attention map, the pose
\* head and the 3D-model network is trainable; with freeze_detr=False the
\* detector's flags are as they were before construction.
C4_FreezeOnlyDetector ==
    (pc # "new") =>
        /\ DOMAIN requires_grad =
             DetrParams \cup Model3DParams \cup AttentionParams \cup PoseHeadParams
        /\ \A p \in Model3DParams \cup AttentionParams \cup PoseHeadParams :
             requires_grad[p] = TRUE
        /\ freeze_detr = TRUE => \A p \in DetrParams : requires_grad[p] = FALSE
        /\ freeze_detr = FALSE =>
             \A p \in DetrParams : requires_grad[p] = detr.requires_grad[p]

\* a detector with trainable and frozen parameters, constructed frozen
C4_Witness ==
    /\ pc = "constructed"
    /\ freeze_detr = TRUE
    /\ \E p \in DetrParams : detr.requires_grad[p] = TRUE
    /\ \E p \in DetrParams : detr.requires_grad[p] = FALSE
    /\ requires_grad["detr.transformer"] = FALSE
    /\ requires_grad["pose_head.l5"] = TRUE

\* C5: when the mask decomposed from the last-scale feature map is absent,
\* forward fails at once: no result record is returned and neither the
\* transformer, the 3D-model network, the cross-attention map nor the pose
\* head is invoked.
C5_AbsentMaskFails ==
    (pc = "called") =>
        LET nt == IF samples.kind \in {"list", "Tensor"}
                  THEN nested_tensor_from_tensor_list(samples) ELSE samples
            features == backbone(detr, nt)[1]
            mask == decompose(features[Len(features)])[2]
        IN (mask = None) =>
             /\ result.raised = "AssertionError"
             /\ result.out = None
             /\ \A i \in DOMAIN result.calls :
                  result.calls[i] \notin {"input_proj", "transformer", "forward_encoder",
                                          "forward_decoder", "bbox_attention", "pose_head"}

\* a NestedTensor without a mask was passed and the call failed
C5_Witness ==
    /\ pc = "called"
    /\ samples.kind = "NestedTensor"
    /\ samples.mask = None
    /\ result.raised = "AssertionError"

\* C6: the model embeddings passed to the cross-attention map and the pose
\* head are the encoder's (M, num_dims) output repeated unchanged for every
\* batch index, the decoder receives the encoder's output itself, and the
\* pose_class and pose_6dof of batch element b equal those of a forward call
\* on image b alone.
C6_BroadcastUnchanged ==
    Returned =>
        LET bs == Len(samples.tensors)
        IN /\ result.locals.model_3d_feat = [b \in 1..bs |-> forward_encoder]
           /\ result.locals.decoder_arg = forward_encoder
           /\ \A b \in 1..bs :
                LET one == DETRpose_forward(self, requires_grad,
                               [samples EXCEPT !.tensors = <<samples.tensors[b]>>])
                IN /\ DOMAIN one.out.pose_class = {1}
                   /\ one.out.pose_class[1] = result.out.pose_class[b]
                   /\ one.out.pose_6dof[1] = result.out.pose_6dof[b]

\* a batch of two different images whose poses differ
C6_Witness ==
    /\ Returned
    /\ Len(samples.tensors) >= 2
    /\ samples.tensors[1] # samples.tensors[2]
    /\ result.out.pose_6dof[1] # result.out.pose_6dof[2]
    /\ result.locals.model_3d_feat[1] = result.locals.model_3d_feat[2]

\* C7: the second output of PoseHeadSmallLinear.forward has shape
\* (B, Q, M, 6), one pose for every (query, model) pair of every batch
\* element, and is the output of the final linear projection l5 with no
\* activation or clipping.
C7_PoseIsRawProjection ==
    Returned =>
        LET ph == self.pose_head
            fused == Fuse(Refine(ph, result.locals.model_3d_feat),
                          result.locals.bbox_3dmodel_attention)
            pose == result.out.pose_6dof
        IN /\ DOMAIN pose = 1..Len(samples.tensors)
           /\ \A b \in DOMAIN pose :
                /\ DOMAIN pose[b] = 1..NumQueries
                /\ \A q \in DOMAIN pose[b] :
                     /\ DOMAIN pose[b][q] = 1..NumModels
                     /\ \A m \in DOMAIN pose[b][q] :
                          /\ DOMAIN pose[b][q][m] = 1..PoseDim
                          /\ pose[b][q][m] =
                               Linear("pose_head.l5", ph.l5.in, PoseDim,
                                      Sequential("l4", ph.l4, num_l4, fused[b][q][m]))

\* a returned pose with a negative and a positive coordinate
C7_Witness ==
    /\ Returned
    /\ \E b \in DOMAIN result.out.pose_6dof : \E q \in 1..NumQueries :
         \E m \in 1..NumModels : \E d1, d2 \in 1..PoseDim :
           /\ result.out.pose_6dof[b][q][m][d1] < 0
           /\ result.out.pose_6dof[b][q][m][d2] > 0

\* C8: with the same weights and the same input, a network constructed with
\* freeze_detr=True returns the same value in every field as one constructed
\* with freeze_detr=False; the two differ only in the trainable flags.
C8_FreezeKeepsOutputs ==
    Returned =>
        LET other == DETRpose_init(detr, ~freeze_detr)
            res == DETRpose_forward(other.self, other.requires_grad, samples)
        IN /\ other.self = self
           /\ res.raised = None
           /\ res.out = result.out

\* a frozen network, whose flags differ from the unfrozen one's, returned
C8_Witness ==
    /\ Returned
    /\ freeze_detr = TRUE
    /\ DETRpose_init(detr, FALSE).requires_grad # requires_grad
    /\ Len(samples.tensors) >= 2

\* C9 (as stated): the scalar of the final projection l3 goes to the softmax
\* over M with no activation in between: pose_class is the softmax over M of
\* l3's outputs, so two models whose scores differ get different probabilities.
C9_SoftmaxOfRawScores ==
    Returned =>
        LET ph == self.pose_head
            fused == Fuse(Refine(ph, result.locals.model_3d_feat),
                          result.locals.bbox_3dmodel_attention)
            scores == ClassScores(ph, fused)
            pcl == result.out.pose_class
        IN \A b \in DOMAIN pcl : \A q \in DOMAIN pcl[b] :
             /\ pcl[b][q] = Softmax(scores[b][q], NumModels)
             /\ \A m1, m2 \in 1..NumModels :
                  scores[b][q][m1] # scores[b][q][m2] =>
                      pcl[b][q][m1].num # pcl[b][q][m2].num

\* C9 (amended): the scalar of the final projection l3 is rectified (ReLU)
\* and then goes to the softmax over M: pose_class is the softmax over M of
\* max(score, 0); models whose scores are both at most 0 get equal
\* probabilities, and a model whose rectified score is not larger than
\* another's gets a probability that is not larger.
C9_SoftmaxOfRectifiedScores ==
    Returned =>
        LET ph == self.pose_head
            fused == Fuse(Refine(ph, result.locals.model_3d_feat),
                          result.locals.bbox_3dmodel_attention)
            scores == ClassScores(ph, fused)
            pcl == result.out.pose_class
        IN \A b \in DOMAIN pcl : \A q \in DOMAIN pcl[b] :
             /\ pcl[b][q] = Softmax([m \in 1..NumModels |-> ReLU(scores[b][q][m])],
                                    NumModels)
             /\ \A m1, m2 \in 1..NumModels :
                  /\ (scores[b][q][m1] <= 0 /\ scores[b][q][m2] <= 0) =>
                         pcl[b][q][m1].num = pcl[b][q][m2].num
                  /\ ReLU(scores[b][q][m1]) <= ReLU(scores[b][q][m2]) =>
                         pcl[b][q][m1].num <= pcl[b][q][m2].num

\* one query with two different negative scores and equal probabilities,
\* another whose positive score earns the larger probability
C9_Witness ==
    /\ Returned
    /\ LET ph == self.pose_head
           fused == Fuse(Refine(ph, result.locals.model_3d_feat),
                         result.locals.bbox_3dmodel_attention)
           scores == ClassScores(ph, fused)
           pcl == result.out.pose_class
       IN /\ \E b \in DOMAIN pcl : \E q \in DOMAIN pcl[b] :
               \E m1, m2 \in 1..NumModels :
                 /\ scores[b][q][m1] < scores[b][q][m2]
                 /\ scores[b][q][m2] < 0
                 /\ pcl[b][q][m1].num = pcl[b][q][m2].num
          /\ \E b \in DOMAIN pcl : \E q \in DOMAIN pcl[b] :
               \E m1, m2 \in 1..NumModels :
                 /\ scores[b][q][m1] < scores[b][q][m2]
                 /\ scores[b][q][m2] > 0
                 /\ pcl[b][q][m1].num < pcl[b][q][m2].num

\* C10: for num_feat = num_dims + num_heads >= 16 the widths of both 4-stage
\* stacks chain under integer division: stage i maps num_feat // 2^i to
\* num_feat // 2^(i+1), each stage's output width is the next stage's input
\* width, the final projection's input width num_feat // 2^4 is the output
\* width of stage 4 and at least 1, and the first stage's input width is
\* num_dims + num_heads, the width of the fused tensor.
C10_WidthsChain ==
    (pc = "constructed" /\ head_args.num_dims + head_args.num_heads >= 16) =>
        LET nf == head_args.num_dims + head_args.num_heads
            Chains(stack, last) ==
                /\ DOMAIN stack = 1..4
                /\ \A i \in 0..3 :
                     /\ stack[i + 1].in = nf \div Pow2(i)
                     /\ stack[i + 1].out = nf \div Pow2(i + 1)
                /\ \A k \in 1..3 : stack[k].out = stack[k + 1].in
                /\ last.in = nf \div Pow2(4)
                /\ last.in = stack[4].out
                /\ last.in >= 1
                /\ stack[1].in = self.num_dims + self.num_heads
        IN /\ Chains(self.l2, self.l3)
           /\ Chains(self.l4, self.l5)
           /\ self.l3.out = 1
           /\ self.l5.out = 6

\* a head built for a fused width whose halvings truncate twice
C10_Witness ==
    /\ pc = "constructed"
    /\ head_args.num_dims + head_args.num_heads >= 16
    /\ (head_args.num_dims + head_args.num_heads) % 2 = 1
    /\ ((head_args.num_dims + head_args.num_heads) \div 2) % 2 = 1
    /\ self.l2[3].in * 4 < head_args.num_dims + head_args.num_heads

====
